---- MODULE Spec2Model ----
(***************************************************************************)
(* A model of rascal's low-level OpenCL binding (src/src/ll.rs) and its    *)
(* facade (src/src/hl.rs): status mapping, string decoding, the two-call   *)
(* queries, and the reference-counted wrappers Context, CommandQueue, Mem. *)
(* The native OpenCL runtime is an environment that answers every call     *)
(* with a status chosen nondeterministically.                              *)
(***************************************************************************)
EXTENDS Integers, Sequences, FiniteSets, TLC

\* ------------------------------------------------------------------ bounds
\* Native objects (handles) the runtime can allocate in one run.
MaxObjs == 2
\* Wrapper values constructed in one run.
MaxWrappers == 3
\* Native retain calls issued on one handle in one run.
MaxRetain == 2
\* Longest device list handed to create_context.
MaxDevList == 1
\* Status integers -MaxStatus..MaxStatus are fed to check_status.
MaxStatus == 66
\* Longest byte buffer handed to string_from_cstring_buf (besides the examples).
MaxBuf == 3

\* --------------------------------------------------------------- constants
CL_SUCCESS == 0

\* The integers the native status enumeration (opencl::cl::CLStatus) declares.
CLStatusValues == {0} \cup (-14 .. -1) \cup (-64 .. -30) \cup {-1001}

\* What a native call answers in the lifetime model: success, two recognized
\* errors (CL_OUT_OF_RESOURCES, CL_OUT_OF_HOST_MEMORY) and one integer that is
\* no status at all.
NativeStatusInts == {CL_SUCCESS, -5, -6, 1}
\* What the runtime answers for an object that is not valid (CL_INVALID_VALUE).
NativeInvalid == {-30}

Kinds == {"Context", "CommandQueue", "Mem"}
Handles == 1 .. MaxObjs
PlatformIds == {1}
DeviceIds == {1}
DeviceLists == UNION {[1 .. n -> DeviceIds] : n \in 0 .. MaxDevList}

VARIABLES
    rc,        \* native: refcount of each handle (0: not allocated, or destroyed)
    okind,     \* native: the kind of object a handle names ("none": not allocated)
    wrappers,  \* the live wrapper values, [id, kind, h]
    nextId,    \* the next wrapper identity
    ncalls,    \* history per handle: the native retain/release calls issued
    ops,       \* history per handle: the duplications and drops performed
    last,      \* the last operation: its name, operand, native calls, result
    mode,      \* "run", "unwind" (after a panic), "abort" (the process aborted)
               \* or "ffi_unwind" (a panic unwinding into the runtime's frames)
    threads    \* with several threads: each thread's position and wrappers

vars == <<rc, okind, wrappers, nextId, ncalls, ops, last, mode, threads>>
nativeVars == <<rc, okind, ncalls>>
lifeVars == <<rc, okind, wrappers, nextId, ncalls, ops, mode>>

\* ----------------------------------------------------------------- results
Ok(v) == [tag |-> "Ok", val |-> v, status |-> CL_SUCCESS]
Err(s) == [tag |-> "Err", val |-> <<>>, status |-> s]
Panic == [tag |-> "Panic", val |-> <<>>, status |-> CL_SUCCESS]
\* The value of a function that returns no Result (clone, drop, the decoder).
Returned(v) == [tag |-> "Return", val |-> v, status |-> CL_SUCCESS]
NoResult == [tag |-> "None", val |-> <<>>, status |-> CL_SUCCESS]
Unit == <<>>

\* num::FromPrimitive::from_i32 for CLStatus: Some(status) or None.
from_i32(status_int) ==
    IF status_int \in CLStatusValues
    THEN [some |-> TRUE, v |-> status_int]
    ELSE [some |-> FALSE, v |-> 0]

check_status_Swallow(status_int) ==
    LET status == from_i32(status_int) IN
    IF status.some /\ status.v = CL_SUCCESS THEN Ok(Unit)
    ELSE IF status.some THEN Err(status.v)
    ELSE Ok(Unit)

check_status(status_int) ==
    LET status == from_i32(status_int) IN
    IF status.some /\ status.v = CL_SUCCESS THEN Ok(Unit)
    ELSE IF status.some THEN Err(status.v)
    ELSE Panic

\* ------------------------------------------------------------ native layer
NoCalls == [retain |-> 0, release |-> 0, retainFail |-> FALSE,
            releaseFail |-> FALSE, relAtZero |-> FALSE]
NoOps == [dup |-> 0, drop |-> 0]

\* A native call as the binding issued it: the entry point, the handle it names,
\* the selector, the status answered, the length n passed in, the length buf of
\* the array whose pointer is passed (0: a null pointer in a sizing call, or the
\* non-null pointer of an empty Vec) and the length out reported back.
QCall(fn, h, param, st, n, buf, out) ==
    [fn |-> fn, h |-> h, param |-> param, status |-> st, n |-> n, buf |-> buf,
     out |-> out]
Call(fn, h, st) == QCall(fn, h, "", st, 0, 0, 0)

\* The statuses the runtime may answer for a retain or release of handle h:
\* an object whose refcount is zero no longer exists and is never accepted.
RefcountAnswers(h) ==
    IF rc[h] = 0 THEN NativeInvalid ELSE NativeStatusInts

\* The statuses the runtime may answer for clCreateContext: a device list of
\* length zero is CL_INVALID_VALUE.
CreateContextAnswers(devices) ==
    IF Len(devices) = 0 THEN NativeInvalid ELSE NativeStatusInts

\* clRetainContext / clRetainCommandQueue / clRetainMemObject answering st.
NativeRetain(h, st) ==
    /\ rc' = [rc EXCEPT ![h] = IF st = CL_SUCCESS THEN @ + 1 ELSE @]
    /\ okind' = okind
    /\ ncalls' = [ncalls EXCEPT ![h].retain = @ + 1,
                                ![h].retainFail = @ \/ st # CL_SUCCESS]

\* clReleaseContext / clReleaseCommandQueue / clReleaseMemObject answering st.
NativeRelease(h, st) ==
    /\ rc' = [rc EXCEPT ![h] = IF st = CL_SUCCESS THEN @ - 1 ELSE @]
    /\ okind' = okind
    /\ ncalls' = [ncalls EXCEPT ![h].release = @ + 1,
                                ![h].releaseFail = @ \/ st # CL_SUCCESS,
                                ![h].relAtZero = @ \/ rc[h] = 0]

\* clCreateContext / clCreateBuffer / clCreateCommandQueue answering st: on
\* success a fresh handle with refcount 1, otherwise the null handle 0.
CanAllocate == \E h \in Handles : okind[h] = "none"
FreshHandle ==
    CHOOSE h \in Handles :
        okind[h] = "none" /\ \A g \in Handles : okind[g] = "none" => h <= g
CreatedHandle(st) == IF st = CL_SUCCESS THEN FreshHandle ELSE 0
NativeCreate(kind, st) ==
    /\ rc' = IF st = CL_SUCCESS THEN [rc EXCEPT ![FreshHandle] = 1] ELSE rc
    /\ okind' = IF st = CL_SUCCESS THEN [okind EXCEPT ![FreshHandle] = kind] ELSE okind
    /\ ncalls' = ncalls

RetainFn(kind) ==
    CASE kind = "Context" -> "clRetainContext"
      [] kind = "CommandQueue" -> "clRetainCommandQueue"
      [] kind = "Mem" -> "clRetainMemObject"
ReleaseFn(kind) ==
    CASE kind = "Context" -> "clReleaseContext"
      [] kind = "CommandQueue" -> "clReleaseCommandQueue"
      [] kind = "Mem" -> "clReleaseMemObject"

\* ---------------------------------------------------------------- wrappers
Wrapper(id, kind, h) == [id |-> id, kind |-> kind, h |-> h]
NoWrapper == Wrapper(0, "none", 0)
Live(h) == {w \in wrappers : w.h = h}
Last(op, w, calls, res) ==
    [op |-> op, w |-> w, calls |-> calls, res |-> res, inner |-> NoResult,
     devices |-> <<>>, arg |-> <<>>]

Init ==
    /\ rc = [h \in Handles |-> 0]
    /\ okind = [h \in Handles |-> "none"]
    /\ wrappers = {}
    /\ nextId = 1
    /\ ncalls = [h \in Handles |-> NoCalls]
    /\ ops = [h \in Handles |-> NoOps]
    /\ last = Last("none", NoWrapper, <<>>, NoResult)
    /\ mode = "run"
    /\ threads = <<>>

\* A panic in run mode starts unwinding; a panic while unwinding aborts.
AfterPanic == IF mode = "run" THEN "unwind" ELSE "abort"

\* -- Mem::try_clone, CommandQueue::try_clone, Context::try_clone ----------
\* try!(check_status(clRetain*(self.0))); Ok(Self(self.0))
try_clone_ret(w, st) ==
    LET r == check_status(st) IN
    IF r.tag = "Ok" THEN Ok(Wrapper(nextId, w.kind, w.h)) ELSE r

try_clone_eff_Copy(w, st) ==
    /\ UNCHANGED nativeVars
    /\ wrappers' = wrappers \cup {Wrapper(nextId, w.kind, w.h)}
    /\ nextId' = nextId + 1
    /\ ops' = [ops EXCEPT ![w.h].dup = @ + 1]

try_clone_eff_WrapOnErr(w, st) ==
    /\ NativeRetain(w.h, st)
    /\ wrappers' = wrappers \cup {Wrapper(nextId, w.kind, w.h)}
    /\ nextId' = nextId + 1
    /\ ops' = [ops EXCEPT ![w.h].dup = @ + 1]

try_clone_eff(w, st) ==
    LET res == try_clone_ret(w, st) IN
    /\ NativeRetain(w.h, st)
    /\ wrappers' = IF res.tag = "Ok" THEN wrappers \cup {res.val} ELSE wrappers
    /\ nextId' = IF res.tag = "Ok" THEN nextId + 1 ELSE nextId
    /\ ops' = IF res.tag = "Ok" THEN [ops EXCEPT ![w.h].dup = @ + 1] ELSE ops

try_clone(w) ==
    /\ mode = "run"
    /\ w \in wrappers
    /\ nextId <= MaxWrappers
    /\ ncalls[w.h].retain < MaxRetain
    /\ \E st \in RefcountAnswers(w.h) :
        LET res == try_clone_ret(w, st) IN
        /\ try_clone_eff(w, st)
        /\ last' = Last("try_clone", w, <<Call(RetainFn(w.kind), w.h, st)>>, res)
        /\ mode' = IF res.tag = "Panic" THEN AfterPanic ELSE mode
    /\ UNCHANGED threads

\* -- Clone for Mem, CommandQueue, Context ---------------------------------
\* match self.try_clone() { Ok(x) => x, Err(err) => panic!(..) }
clone_ret(w, st) ==
    LET t == try_clone_ret(w, st) IN
    IF t.tag = "Ok" THEN Returned(t.val) ELSE Panic

clone(w) ==
    /\ mode = "run"
    /\ w \in wrappers
    /\ nextId <= MaxWrappers
    /\ ncalls[w.h].retain < MaxRetain
    /\ \E st \in RefcountAnswers(w.h) :
        LET res == clone_ret(w, st) IN
        /\ try_clone_eff(w, st)
        /\ last' = Last("clone", w, <<Call(RetainFn(w.kind), w.h, st)>>, res)
        /\ mode' = IF res.tag = "Panic" THEN AfterPanic ELSE mode
    /\ UNCHANGED threads

\* -- Drop for Mem, CommandQueue, Context ----------------------------------
\* match check_status(clRelease*(self.0)) { Ok(()) => {}, Err(err) => panic!(..) }
drop_ret_Swallow(st) ==
    IF check_status(st).tag = "Panic" THEN Panic ELSE Returned(Unit)

drop_ret(st) ==
    LET r == check_status(st) IN
    IF r.tag = "Ok" THEN Returned(Unit) ELSE Panic

drop_eff_NoRelease(w, st) ==
    /\ UNCHANGED nativeVars
    /\ wrappers' = wrappers \ {w}
    /\ ops' = [ops EXCEPT ![w.h].drop = @ + 1]

drop_eff(w, st) ==
    /\ NativeRelease(w.h, st)
    /\ wrappers' = wrappers \ {w}
    /\ ops' = [ops EXCEPT ![w.h].drop = @ + 1]

drop(w) ==
    /\ mode \in {"run", "unwind"}
    /\ w \in wrappers
    /\ \E st \in RefcountAnswers(w.h) :
        LET res == drop_ret(st) IN
        /\ drop_eff(w, st)
        /\ last' = Last("drop", w, <<Call(ReleaseFn(w.kind), w.h, st)>>, res)
        /\ mode' = IF res.tag = "Panic" THEN AfterPanic ELSE mode
    /\ UNCHANGED <<nextId, threads>>

Mem_try_clone == \E w \in wrappers : w.kind = "Mem" /\ try_clone(w)
Mem_clone == \E w \in wrappers : w.kind = "Mem" /\ clone(w)
Mem_drop == \E w \in wrappers : w.kind = "Mem" /\ drop(w)
CommandQueue_try_clone == \E w \in wrappers : w.kind = "CommandQueue" /\ try_clone(w)
CommandQueue_clone == \E w \in wrappers : w.kind = "CommandQueue" /\ clone(w)
CommandQueue_drop == \E w \in wrappers : w.kind = "CommandQueue" /\ drop(w)
Context_try_clone == \E w \in wrappers : w.kind = "Context" /\ try_clone(w)
Context_clone == \E w \in wrappers : w.kind = "Context" /\ clone(w)
Context_drop == \E w \in wrappers : w.kind = "Context" /\ drop(w)

\* -- create_context, create_mem_device_buffer, create_command_queue -------
\* let x = clCreate*(.., &mut err); try!(check_status(err)); Ok(Self(x))
create_ret_NoCheck(kind, st) ==
    Ok(Wrapper(nextId, kind, CreatedHandle(st)))

create_ret(kind, st) ==
    LET r == check_status(st) IN
    IF r.tag = "Ok" THEN Ok(Wrapper(nextId, kind, CreatedHandle(st))) ELSE r

\* The wrapper built from the returned handle before the status is looked at.
create_eff_WrapFirst(kind, st) ==
    /\ NativeCreate(kind, st)
    /\ wrappers' = wrappers \cup {Wrapper(nextId, kind, CreatedHandle(st))}
    /\ nextId' = nextId + 1
    /\ ops' = ops

create_eff(kind, st) ==
    LET res == create_ret(kind, st) IN
    /\ NativeCreate(kind, st)
    /\ wrappers' = IF res.tag = "Ok" THEN wrappers \cup {res.val} ELSE wrappers
    /\ nextId' = IF res.tag = "Ok" THEN nextId + 1 ELSE nextId
    /\ ops' = ops

create_context(platform, devices) ==
    /\ mode = "run"
    /\ CanAllocate
    /\ nextId <= MaxWrappers
    /\ \E st \in CreateContextAnswers(devices) :
        LET res == create_ret("Context", st) IN
        /\ create_eff("Context", st)
        /\ last' = [Last("create_context", NoWrapper,
                         <<Call("clCreateContext", CreatedHandle(st), st)>>, res)
                    EXCEPT !.devices = devices]
        /\ mode' = IF res.tag = "Panic" THEN AfterPanic ELSE mode
    /\ UNCHANGED threads

create_mem_device_buffer(context) ==
    /\ mode = "run"
    /\ context \in wrappers
    /\ context.kind = "Context"
    /\ CanAllocate
    /\ nextId <= MaxWrappers
    /\ \E st \in NativeStatusInts :
        LET res == create_ret("Mem", st) IN
        /\ create_eff("Mem", st)
        /\ last' = Last("create_mem_device_buffer", context,
                        <<Call("clCreateBuffer", CreatedHandle(st), st)>>, res)
        /\ mode' = IF res.tag = "Panic" THEN AfterPanic ELSE mode
    /\ UNCHANGED threads

create_command_queue(context, device) ==
    /\ mode = "run"
    /\ context \in wrappers
    /\ context.kind = "Context"
    /\ CanAllocate
    /\ nextId <= MaxWrappers
    /\ \E st \in NativeStatusInts :
        LET res == create_ret("CommandQueue", st) IN
        /\ create_eff("CommandQueue", st)
        /\ last' = Last("create_command_queue", context,
                        <<Call("clCreateCommandQueue", CreatedHandle(st), st)>>, res)
        /\ mode' = IF res.tag = "Panic" THEN AfterPanic ELSE mode
    /\ UNCHANGED threads

\* -- hl::Platform::create_context -----------------------------------------
\* ll::create_context(self.0, &devices[..]).map(Context)
hl_Context(c) == [hl_Context |-> c]

hl_create_context_ret_Unwrap(inner) ==
    IF inner.tag = "Ok" THEN Ok(hl_Context(inner.val)) ELSE Panic

hl_create_context_ret(inner) ==
    IF inner.tag = "Ok" THEN Ok(hl_Context(inner.val)) ELSE inner

hl_create_context(platform, devices) ==
    /\ mode = "run"
    /\ CanAllocate
    /\ nextId <= MaxWrappers
    /\ \E st \in CreateContextAnswers(devices) :
        LET inner == create_ret("Context", st)
            res == hl_create_context_ret(inner)
        IN
        /\ create_eff("Context", st)
        /\ last' = [Last("hl_create_context", NoWrapper,
                         <<Call("clCreateContext", CreatedHandle(st), st)>>, res)
                    EXCEPT !.devices = devices, !.inner = inner]
        /\ mode' = IF res.tag = "Panic" THEN AfterPanic ELSE mode
    /\ UNCHANGED threads

\* -- dummy_context_handler ------------------------------------------------
\* The error strings the runtime hands to the callback, without their
\* terminator: one that is UTF-8 and one that is not.
ErrInfos == {<<65>>, <<255>>}
\* What a panic that leaves an extern "C" function does: the build either
\* aborts the process at the boundary or unwinds into the runtime's frames,
\* which is undefined.
FfiPanicOutcomes == {"abort", "ffi_unwind"}

\* extern "C" fn dummy_context_handler: CStr::from_ptr(errinfo).to_str(), and
\* a panic! in either arm of the match. The runtime calls it for an error in a
\* context that exists.
dummy_context_handler(errinfo) ==
    /\ mode = "run"
    /\ \E h \in Handles : okind[h] = "Context" /\ rc[h] > 0
    /\ \E outcome \in FfiPanicOutcomes :
        /\ last' = [Last("dummy_context_handler", NoWrapper, <<>>, Panic)
                    EXCEPT !.arg = errinfo]
        /\ mode' = outcome
    /\ UNCHANGED <<rc, okind, wrappers, nextId, ncalls, ops, threads>>

Context_error == \E errinfo \in ErrInfos : dummy_context_handler(errinfo)

Create_context == \E p \in PlatformIds, ds \in DeviceLists : create_context(p, ds)
Create_mem_device_buffer == \E c \in wrappers : create_mem_device_buffer(c)
Create_command_queue ==
    \E c \in wrappers, d \in DeviceIds : create_command_queue(c, d)
Hl_create_context ==
    \E p \in PlatformIds, ds \in DeviceLists : hl_create_context(p, ds)

Next ==
    \/ Create_context
    \/ Create_mem_device_buffer
    \/ Create_command_queue
    \/ Hl_create_context
    \/ Mem_try_clone
    \/ Mem_clone
    \/ Mem_drop
    \/ CommandQueue_try_clone
    \/ CommandQueue_clone
    \/ CommandQueue_drop
    \/ Context_try_clone
    \/ Context_clone
    \/ Context_drop
    \/ Context_error

Spec == Init /\ [][Next]_vars


\* =========================================================== string decoding
\* String::from_utf8's validation of the bytes b[i..] (core::str::from_utf8).
Cont(c) == c \in 128 .. 191
RECURSIVE Utf8From(_, _)
Utf8From(b, i) ==
    IF i > Len(b) THEN TRUE
    ELSE
        LET c == b[i]
            has(k) == i + k <= Len(b)
        IN
        IF c < 128 THEN Utf8From(b, i + 1)
        ELSE IF c \in 194 .. 223
            THEN has(1) /\ Cont(b[i + 1]) /\ Utf8From(b, i + 2)
        ELSE IF c = 224
            THEN has(2) /\ b[i + 1] \in 160 .. 191 /\ Cont(b[i + 2]) /\ Utf8From(b, i + 3)
        ELSE IF c \in (225 .. 236) \cup (238 .. 239)
            THEN has(2) /\ Cont(b[i + 1]) /\ Cont(b[i + 2]) /\ Utf8From(b, i + 3)
        ELSE IF c = 237
            THEN has(2) /\ b[i + 1] \in 128 .. 159 /\ Cont(b[i + 2]) /\ Utf8From(b, i + 3)
        ELSE IF c = 240
            THEN has(3) /\ b[i + 1] \in 144 .. 191 /\ Cont(b[i + 2]) /\ Cont(b[i + 3])
                 /\ Utf8From(b, i + 4)
        ELSE IF c \in 241 .. 243
            THEN has(3) /\ Cont(b[i + 1]) /\ Cont(b[i + 2]) /\ Cont(b[i + 3])
                 /\ Utf8From(b, i + 4)
        ELSE IF c = 244
            THEN has(3) /\ b[i + 1] \in 128 .. 143 /\ Cont(b[i + 2]) /\ Cont(b[i + 3])
                 /\ Utf8From(b, i + 4)
        ELSE FALSE

\* A Rust String: its UTF-8 bytes.
String(bytes) == [utf8 |-> bytes]
\* String::from_utf8(buf): Ok(String) or Err(FromUtf8Error).
from_utf8(buf) ==
    IF Utf8From(buf, 1) THEN [ok |-> TRUE, string |-> String(buf)]
    ELSE [ok |-> FALSE, string |-> String(<<>>)]

\* Vec::pop: the last element, if any, and the vector without it.
pop(buf) ==
    IF Len(buf) = 0 THEN [some |-> FALSE, v |-> 0, rest |-> buf]
    ELSE [some |-> TRUE, v |-> buf[Len(buf)], rest |-> SubSeq(buf, 1, Len(buf) - 1)]

RECURSIVE UpToNul(_, _)
UpToNul(buf, i) ==
    IF i > Len(buf) \/ buf[i] = 0 THEN SubSeq(buf, 1, i - 1) ELSE UpToNul(buf, i + 1)

string_from_cstring_buf_CStr(buf) ==
    IF Len(buf) = 0 \/ buf[Len(buf)] # 0 THEN Panic
    ELSE IF from_utf8(UpToNul(buf, 1)).ok THEN Returned(String(UpToNul(buf, 1)))
    ELSE Panic

string_from_cstring_buf_Lossy(buf) ==
    LET p == pop(buf) IN
    IF ~p.some THEN Returned(String(<<>>))
    ELSE IF p.v = 0 /\ from_utf8(p.rest).ok THEN Returned(from_utf8(p.rest).string)
    ELSE IF p.v = 0 THEN Returned(String(<<>>))
    ELSE Returned(String(buf))

string_from_cstring_buf(buf) ==
    LET p == pop(buf) IN
    IF p.some /\ p.v = 0
    THEN LET u == from_utf8(p.rest) IN
         IF u.ok THEN Returned(u.string) ELSE Panic
    ELSE Panic

\* ============================================================ native queries
\* Byte values the buffers are built from: NUL, 'A', the two bytes of U+00E9,
\* and a byte that never occurs in UTF-8.
ByteAlphabet == {0, 65, 195, 169, 255}
Buffers == UNION {[1 .. n -> ByteAlphabet] : n \in 0 .. MaxBuf}
\* b"OpenCL 1.2\0" and b"OpenCL".
ExampleTerminated == <<79, 112, 101, 110, 67, 76, 32, 49, 46, 50, 0>>
ExampleUnterminated == <<79, 112, 101, 110, 67, 76>>
DecodeInputs == Buffers \cup {ExampleTerminated, ExampleUnterminated}
\* The property values a runtime holds in the low-level model: well formed,
\* not terminated, and not UTF-8.
DriverStrings == {<<65, 0>>, <<65>>, <<255, 0>>}
StatusInts == (-MaxStatus .. MaxStatus) \cup {-1001}

PlatformInfos == {"Name", "Version"}
DeviceInfoStrings == {"Name", "DriverVersion"}
DeviceInfoBools == {"Available", "ImageSupport"}
DeviceInfoClUints == {"MaxComputeUnits", "VendorId"}
\* How many platform or device ids the runtime reports.
IdCounts == 0 .. MaxDevList + 1

PlatformId(p) == [PlatformId |-> p]
DeviceId(d) == [DeviceId |-> d]

\* repeat(0).take(n).collect()
Zeros(n) == [i \in 1 .. n |-> 0]
\* The runtime writing its value v into a buffer of the given length.
Fill(buf, v) == [i \in 1 .. Len(buf) |-> IF i <= Len(v) THEN v[i] ELSE buf[i]]
\* The statuses the runtime may answer when asked to fill an array of ids:
\* num_entries = 0 with a non-null array is CL_INVALID_VALUE.
FillIdsAnswers(num_entries) ==
    IF num_entries = 0 THEN NativeInvalid ELSE NativeStatusInts

Run(calls, res) == [calls |-> calls, res |-> res]

\* -- get_platform_ids ------------------------------------------------------
get_platform_ids_run(st1, n, st2) ==
    LET c1 == QCall("clGetPlatformIDs", 0, "", st1, 0, 0, n)
        ids == Zeros(n)
        c2 == QCall("clGetPlatformIDs", 0, "", st2, Len(ids), Len(ids), 0)
        filled == Fill(ids, [i \in 1 .. n |-> i])
    IN
    IF check_status(st1).tag # "Ok" THEN Run(<<c1>>, check_status(st1))
    ELSE IF check_status(st2).tag # "Ok" THEN Run(<<c1, c2>>, check_status(st2))
    ELSE Run(<<c1, c2>>, Ok([i \in 1 .. Len(filled) |-> PlatformId(filled[i])]))

\* -- get_platform_info -----------------------------------------------------
get_platform_info_run_NoTry(platform, info, st1, v, st2) ==
    LET c1 == QCall("clGetPlatformInfo", platform, info, st1, 0, 0, Len(v))
        bytes == Zeros(Len(v))
        c2 == QCall("clGetPlatformInfo", platform, info, st2, Len(bytes), Len(bytes), 0)
        s == string_from_cstring_buf(Fill(bytes, v))
    IN
    IF check_status(st2).tag # "Ok" THEN Run(<<c1, c2>>, check_status(st2))
    ELSE IF s.tag = "Panic" THEN Run(<<c1, c2>>, Panic)
    ELSE Run(<<c1, c2>>, Ok(s.val))

get_platform_info_run(platform, info, st1, v, st2) ==
    LET c1 == QCall("clGetPlatformInfo", platform, info, st1, 0, 0, Len(v))
        bytes == Zeros(Len(v))
        c2 == QCall("clGetPlatformInfo", platform, info, st2, Len(bytes), Len(bytes), 0)
        s == string_from_cstring_buf(Fill(bytes, v))
    IN
    IF check_status(st1).tag # "Ok" THEN Run(<<c1>>, check_status(st1))
    ELSE IF check_status(st2).tag # "Ok" THEN Run(<<c1, c2>>, check_status(st2))
    ELSE IF s.tag = "Panic" THEN Run(<<c1, c2>>, Panic)
    ELSE Run(<<c1, c2>>, Ok(s.val))

\* -- get_device_ids --------------------------------------------------------
\* Every id returned retained, as if a DeviceId were a counted reference.
get_device_ids_run_Retain(platform, device_type, st1, n, st2) ==
    LET c1 == QCall("clGetDeviceIDs", platform, device_type, st1, 0, 0, n)
        ids == Zeros(n)
        c2 == QCall("clGetDeviceIDs", platform, device_type, st2, Len(ids), Len(ids), 0)
        filled == Fill(ids, [i \in 1 .. n |-> i])
        retains == [i \in 1 .. n |-> Call("clRetainDevice", filled[i], CL_SUCCESS)]
    IN
    IF check_status(st1).tag # "Ok" THEN Run(<<c1>>, check_status(st1))
    ELSE IF check_status(st2).tag # "Ok" THEN Run(<<c1, c2>>, check_status(st2))
    ELSE Run(<<c1, c2>> \o retains,
             Ok([i \in 1 .. Len(filled) |-> DeviceId(filled[i])]))

get_device_ids_run(platform, device_type, st1, n, st2) ==
    LET c1 == QCall("clGetDeviceIDs", platform, device_type, st1, 0, 0, n)
        ids == Zeros(n)
        c2 == QCall("clGetDeviceIDs", platform, device_type, st2, Len(ids), Len(ids), 0)
        filled == Fill(ids, [i \in 1 .. n |-> i])
    IN
    IF check_status(st1).tag # "Ok" THEN Run(<<c1>>, check_status(st1))
    ELSE IF check_status(st2).tag # "Ok" THEN Run(<<c1, c2>>, check_status(st2))
    ELSE Run(<<c1, c2>>, Ok([i \in 1 .. Len(filled) |-> DeviceId(filled[i])]))

\* -- DeviceInfo for DeviceInfoBool / DeviceInfoClUint ----------------------
\* One call with a buffer of size_of::<cl_bool>() = size_of::<cl_uint>() = 4.
DeviceInfoBool_run(device, info, st, v) ==
    LET c == QCall("clGetDeviceInfo", device, info, st, 4, 4, 0) IN
    IF check_status(st).tag # "Ok" THEN Run(<<c>>, check_status(st))
    ELSE Run(<<c>>, Ok(v))

DeviceInfoClUint_run(device, info, st, v) ==
    LET c == QCall("clGetDeviceInfo", device, info, st, 4, 4, 0) IN
    IF check_status(st).tag # "Ok" THEN Run(<<c>>, check_status(st))
    ELSE Run(<<c>>, Ok(v))

\* -- DeviceInfo for DeviceInfoString ---------------------------------------
\* The buffer allocated without room for the terminator the runtime counts.
DeviceInfoString_run_ShortBuf(device, info, st1, v, st2) ==
    LET c1 == QCall("clGetDeviceInfo", device, info, st1, 0, 0, Len(v))
        bytes == Zeros(Len(v) - 1)
        c2 == QCall("clGetDeviceInfo", device, info, st2, Len(v), Len(bytes), 0)
        s == string_from_cstring_buf(Fill(bytes, v))
    IN
    IF check_status(st1).tag # "Ok" THEN Run(<<c1>>, check_status(st1))
    ELSE IF check_status(st2).tag # "Ok" THEN Run(<<c1, c2>>, check_status(st2))
    ELSE IF s.tag = "Panic" THEN Run(<<c1, c2>>, Panic)
    ELSE Run(<<c1, c2>>, Ok(s.val))

DeviceInfoString_run(device, info, st1, v, st2) ==
    LET c1 == QCall("clGetDeviceInfo", device, info, st1, 0, 0, Len(v))
        bytes == Zeros(Len(v))
        c2 == QCall("clGetDeviceInfo", device, info, st2, Len(bytes), Len(bytes), 0)
        s == string_from_cstring_buf(Fill(bytes, v))
    IN
    IF check_status(st1).tag # "Ok" THEN Run(<<c1>>, check_status(st1))
    ELSE IF check_status(st2).tag # "Ok" THEN Run(<<c1, c2>>, check_status(st2))
    ELSE IF s.tag = "Panic" THEN Run(<<c1, c2>>, Panic)
    ELSE Run(<<c1, c2>>, Ok(s.val))

\* -- DeviceInfo for DeviceInfoDeviceType -----------------------------------
\* A cl_device_type is a 64-bit field, modelled as the set of its set bits.
DEFAULT == {0}
CPU == {1}
GPU == {2}
ACCELERATOR == {3}
ALL == 0 .. 31
\* bitflags!: the union of the declared flags.
DeviceTypeAll == DEFAULT \cup GPU \cup CPU \cup ACCELERATOR \cup ALL
\* DeviceType::from_bits_truncate: the bits outside the declared flags dropped.
from_bits_Truncate(bits) == [some |-> TRUE, v |-> bits \cap DeviceTypeAll]

\* DeviceType::from_bits: None when a bit outside the declared flags is set.
from_bits(bits) ==
    IF bits \ DeviceTypeAll # {} THEN [some |-> FALSE, v |-> {}]
    ELSE [some |-> TRUE, v |-> bits]
\* The raw device types a runtime reports in this model.
DeviceTypeRaws == {GPU, CPU, CPU \cup GPU, {4}, {2, 32}, {40}}

DeviceInfoDeviceType_run(device, st, raw) ==
    LET c == QCall("clGetDeviceInfo", device, "CL_DEVICE_TYPE", st, 8, 8, 0)
        t == from_bits(raw)
    IN
    IF check_status(st).tag # "Ok" THEN Run(<<c>>, check_status(st))
    ELSE IF t.some THEN Run(<<c>>, Ok(t.v))
    ELSE Run(<<c>>, Panic)

\* A query changes nothing but what it returns.
Query(op, run, input) ==
    /\ mode = "run"
    /\ last' = [Last(op, NoWrapper, run.calls, run.res) EXCEPT !.arg = input]
    /\ mode' = IF run.res.tag = "Panic" THEN AfterPanic ELSE mode
    /\ UNCHANGED <<rc, okind, wrappers, nextId, ncalls, ops, threads>>

get_platform_ids ==
    \E st1 \in NativeStatusInts, n \in IdCounts :
        \E st2 \in FillIdsAnswers(n) :
            Query("get_platform_ids", get_platform_ids_run(st1, n, st2), n)

get_platform_info(platform, info, values) ==
    \E st1 \in NativeStatusInts, v \in values, st2 \in NativeStatusInts :
        Query("get_platform_info", get_platform_info_run(platform, info, st1, v, st2), v)

get_device_ids(platform, device_type) ==
    \E st1 \in NativeStatusInts, n \in IdCounts :
        \E st2 \in FillIdsAnswers(n) :
            Query("get_device_ids",
                  get_device_ids_run(platform, device_type, st1, n, st2), n)

get_device_info_Bool(device, info) ==
    \E st \in NativeStatusInts, v \in {0, 1} :
        Query("get_device_info_Bool", DeviceInfoBool_run(device, info, st, v), v)

get_device_info_ClUint(device, info) ==
    \E st \in NativeStatusInts, v \in {0, 8} :
        Query("get_device_info_ClUint", DeviceInfoClUint_run(device, info, st, v), v)

get_device_info_String(device, info, values) ==
    \E st1 \in NativeStatusInts, v \in values, st2 \in NativeStatusInts :
        Query("get_device_info_String", DeviceInfoString_run(device, info, st1, v, st2), v)

get_device_info_DeviceType(device) ==
    \E st \in NativeStatusInts, raw \in DeviceTypeRaws :
        Query("get_device_info_DeviceType", DeviceInfoDeviceType_run(device, st, raw), raw)

\* -- the pure functions applied to an input ---------------------------------
Apply_check_status ==
    \E status_int \in StatusInts :
        /\ last' = [Last("check_status", NoWrapper, <<>>, check_status(status_int))
                    EXCEPT !.arg = status_int]
        /\ mode' = IF check_status(status_int).tag = "Panic" THEN AfterPanic ELSE mode
        /\ UNCHANGED <<rc, okind, wrappers, nextId, ncalls, ops, threads>>

Apply_string_from_cstring_buf ==
    \E buf \in DecodeInputs :
        /\ last' = [Last("string_from_cstring_buf", NoWrapper, <<>>,
                         string_from_cstring_buf(buf))
                    EXCEPT !.arg = buf]
        /\ mode' = IF string_from_cstring_buf(buf).tag = "Panic" THEN AfterPanic ELSE mode
        /\ UNCHANGED <<rc, okind, wrappers, nextId, ncalls, ops, threads>>

\* ----------------------------------------------------------- specifications
QueryOps ==
    {"get_platform_ids", "get_platform_info", "get_device_ids",
     "get_device_info_Bool", "get_device_info_ClUint", "get_device_info_String",
     "get_device_info_DeviceType", "check_status", "string_from_cstring_buf",
     "copy_ll_id", "copy_hl_value", "hl_get_platforms", "hl_get_devices",
     "hl_Platform_info", "hl_Device_info", "hl_Device_device_type",
     "hl_Device_num_compute_units"}
\* A query reads nothing of the state and leaves only its own record in last,
\* so a query that follows a query reaches no state the second query does not
\* reach alone: those repeated transitions are left out.
NotAfterQuery == last.op \notin QueryOps

Get_platform_ids ==
    /\ NotAfterQuery
    /\ get_platform_ids
Get_platform_info ==
    /\ NotAfterQuery
    /\ \E p \in PlatformIds, info \in PlatformInfos :
        get_platform_info(p, info, DriverStrings)
Get_device_ids ==
    /\ NotAfterQuery
    /\ \E p \in PlatformIds, t \in {ALL, GPU} : get_device_ids(p, t)
Get_device_info_Bool ==
    /\ NotAfterQuery
    /\ \E d \in DeviceIds, info \in DeviceInfoBools : get_device_info_Bool(d, info)
Get_device_info_ClUint ==
    /\ NotAfterQuery
    /\ \E d \in DeviceIds, info \in DeviceInfoClUints : get_device_info_ClUint(d, info)
Get_device_info_String ==
    /\ NotAfterQuery
    /\ \E d \in DeviceIds, info \in DeviceInfoStrings :
        get_device_info_String(d, info, DriverStrings)
Get_device_info_DeviceType ==
    /\ NotAfterQuery
    /\ \E d \in DeviceIds : get_device_info_DeviceType(d)

\* The low-level operations that return a Result.
NextLL ==
    \/ Get_platform_ids
    \/ Get_platform_info
    \/ Get_device_ids
    \/ Get_device_info_Bool
    \/ Get_device_info_ClUint
    \/ Get_device_info_String
    \/ Get_device_info_DeviceType
    \/ Create_context
    \/ Create_mem_device_buffer
    \/ Create_command_queue
    \/ Mem_try_clone
    \/ CommandQueue_try_clone
    \/ Context_try_clone

SpecLL == Init /\ [][NextLL]_vars

\* The decoders on every input of the bounded sets, alone and inside the two
\* string queries.
Check_status ==
    /\ NotAfterQuery
    /\ Apply_check_status
String_from_cstring_buf ==
    /\ NotAfterQuery
    /\ Apply_string_from_cstring_buf
Decode_platform_info ==
    /\ NotAfterQuery
    /\ \E p \in PlatformIds : get_platform_info(p, "Name", DecodeInputs)
Decode_device_info ==
    /\ NotAfterQuery
    /\ \E d \in DeviceIds : get_device_info_String(d, "Name", DecodeInputs)

NextPure ==
    \/ Check_status
    \/ String_from_cstring_buf
    \/ Decode_platform_info
    \/ Decode_device_info

SpecPure == Init /\ [][NextPure]_vars

\* ------------------------------------------------------ ids and the facade
\* #[derive(Copy, Clone)] on PlatformId and DeviceId, and on the facade's
\* Platform and Device: a copy is the same value, made without a native call.
hl_Platform(p) == [hl_Platform |-> PlatformId(p)]
hl_Device(d) == [hl_Device |-> DeviceId(d)]

copy_ll_id(id) == Query("copy_ll_id", Run(<<>>, Returned(id)), id)
copy_hl_value(v) == Query("copy_hl_value", Run(<<>>, Returned(v)), v)

\* Result::unwrap: the Ok value, or a panic.
unwrap(res) == IF res.tag = "Ok" THEN Returned(res.val) ELSE Panic

\* hl::get_platforms: ll::get_platform_ids().unwrap() mapped to Platform.
hl_get_platforms_run(st1, n, st2) ==
    LET r == get_platform_ids_run(st1, n, st2)
        u == unwrap(r.res)
    IN
    IF u.tag = "Panic" THEN Run(r.calls, Panic)
    ELSE Run(r.calls,
             Returned([i \in 1 .. Len(u.val) |-> [hl_Platform |-> u.val[i]]]))

\* hl::Platform::get_devices: ll::get_device_ids(self.0, ALL).unwrap() mapped
\* to Device.
hl_get_devices_run(platform, st1, n, st2) ==
    LET r == get_device_ids_run(platform, ALL, st1, n, st2)
        u == unwrap(r.res)
    IN
    IF u.tag = "Panic" THEN Run(r.calls, Panic)
    ELSE Run(r.calls,
             Returned([i \in 1 .. Len(u.val) |-> [hl_Device |-> u.val[i]]]))

\* The accessors of Platform and Device: the low-level query, unwrapped.
hl_unwrapped(run) == Run(run.calls, unwrap(run.res))

hl_get_platforms ==
    \E st1 \in NativeStatusInts, n \in IdCounts :
        \E st2 \in FillIdsAnswers(n) :
            Query("hl_get_platforms", hl_get_platforms_run(st1, n, st2), n)

hl_get_devices(platform) ==
    \E st1 \in NativeStatusInts, n \in IdCounts :
        \E st2 \in FillIdsAnswers(n) :
            Query("hl_get_devices", hl_get_devices_run(platform, st1, n, st2), n)

hl_Platform_info(platform, info, values) ==
    \E st1 \in NativeStatusInts, v \in values, st2 \in NativeStatusInts :
        Query("hl_Platform_info",
              hl_unwrapped(get_platform_info_run(platform, info, st1, v, st2)), v)

hl_Device_info(device, info, values) ==
    \E st1 \in NativeStatusInts, v \in values, st2 \in NativeStatusInts :
        Query("hl_Device_info",
              hl_unwrapped(DeviceInfoString_run(device, info, st1, v, st2)), v)

hl_Device_device_type(device) ==
    \E st \in NativeStatusInts, raw \in DeviceTypeRaws :
        Query("hl_Device_device_type",
              hl_unwrapped(DeviceInfoDeviceType_run(device, st, raw)), raw)

hl_Device_num_compute_units(device) ==
    \E st \in NativeStatusInts, v \in {0, 8} :
        Query("hl_Device_num_compute_units",
              hl_unwrapped(DeviceInfoClUint_run(device, "MaxComputeUnits", st, v)), v)

Copy_ll_id ==
    /\ NotAfterQuery
    /\ \E id \in {PlatformId(p) : p \in PlatformIds} \cup {DeviceId(d) : d \in DeviceIds} :
        copy_ll_id(id)
Copy_hl_value ==
    /\ NotAfterQuery
    /\ \E v \in {hl_Platform(p) : p \in PlatformIds} \cup {hl_Device(d) : d \in DeviceIds} :
        copy_hl_value(v)
Hl_get_platforms ==
    /\ NotAfterQuery
    /\ hl_get_platforms
Hl_get_devices ==
    /\ NotAfterQuery
    /\ \E p \in PlatformIds : hl_get_devices(p)
Hl_Platform_info ==
    /\ NotAfterQuery
    /\ \E p \in PlatformIds, info \in PlatformInfos :
        hl_Platform_info(p, info, DriverStrings)
Hl_Device_info ==
    /\ NotAfterQuery
    /\ \E d \in DeviceIds, info \in DeviceInfoStrings :
        hl_Device_info(d, info, DriverStrings)
Hl_Device_device_type ==
    /\ NotAfterQuery
    /\ \E d \in DeviceIds : hl_Device_device_type(d)
Hl_Device_num_compute_units ==
    /\ NotAfterQuery
    /\ \E d \in DeviceIds : hl_Device_num_compute_units(d)

\* The enumerations, queries and copies of ids, low-level and facade, among
\* the creation, cloning and destruction of reference-counted objects.
NextIds ==
    \/ Get_platform_ids
    \/ Get_platform_info
    \/ Get_device_ids
    \/ Get_device_info_Bool
    \/ Get_device_info_ClUint
    \/ Get_device_info_String
    \/ Get_device_info_DeviceType
    \/ Copy_ll_id
    \/ Copy_hl_value
    \/ Hl_get_platforms
    \/ Hl_get_devices
    \/ Hl_Platform_info
    \/ Hl_Device_info
    \/ Hl_Device_device_type
    \/ Hl_Device_num_compute_units
    \/ Create_context
    \/ Create_mem_device_buffer
    \/ Context_clone
    \/ Context_drop
    \/ Mem_drop

SpecIds == Init /\ [][NextIds]_vars

\* ----------------------------------------------------------------- threads
\* Several threads, each owning wrappers of its own of one native object. A
\* thread runs try_clone and drop on its own wrappers; the steps of different
\* threads interleave. The runtime performs the retain or release of an
\* existing object atomically, and rejects one of a destroyed object.
NumThreads == 2
MaxClones == 3
Threads == 1 .. NumThreads

ThreadAnswers(h) == IF rc[h] = 0 THEN NativeInvalid ELSE {CL_SUCCESS}

Idle(owned) == [pc |-> "idle", src |-> NoWrapper, st |-> CL_SUCCESS, owned |-> owned]

\* One object created and cloned until every thread has a wrapper of it.
InitThreads ==
    /\ \E kind \in Kinds :
        /\ okind = [h \in Handles |-> IF h = 1 THEN kind ELSE "none"]
        /\ wrappers = {Wrapper(t, kind, 1) : t \in Threads}
        /\ threads = [t \in Threads |-> Idle({Wrapper(t, kind, 1)})]
    /\ rc = [h \in Handles |-> IF h = 1 THEN NumThreads ELSE 0]
    /\ nextId = NumThreads + 1
    /\ ncalls = [h \in Handles |->
                    IF h = 1 THEN [NoCalls EXCEPT !.retain = NumThreads - 1]
                    ELSE NoCalls]
    /\ ops = [h \in Handles |->
                 IF h = 1 THEN [NoOps EXCEPT !.dup = NumThreads - 1] ELSE NoOps]
    /\ last = Last("none", NoWrapper, <<>>, NoResult)
    /\ mode = "run"

\* try_clone(&self): self is borrowed and self.0 is read for the native call.
try_clone_read(t, w) ==
    /\ mode = "run"
    /\ threads[t].pc = "idle"
    /\ w \in threads[t].owned
    /\ nextId + Cardinality({u \in Threads : threads[u].pc # "idle"})
          <= NumThreads + MaxClones
    /\ threads' = [threads EXCEPT ![t].pc = "read", ![t].src = w]
    /\ UNCHANGED <<rc, okind, wrappers, nextId, ncalls, ops, last, mode>>

\* The retain left out: the handle copied without a native call.
try_clone_retain_Skip(t) ==
    /\ mode = "run"
    /\ threads[t].pc = "read"
    /\ threads' = [threads EXCEPT ![t].pc = "retained", ![t].st = CL_SUCCESS]
    /\ UNCHANGED <<rc, okind, wrappers, nextId, ncalls, ops, last, mode>>

\* clRetain*(self.0)
try_clone_retain(t) ==
    /\ mode = "run"
    /\ threads[t].pc = "read"
    /\ \E st \in ThreadAnswers(threads[t].src.h) :
        /\ NativeRetain(threads[t].src.h, st)
        /\ threads' = [threads EXCEPT ![t].pc = "retained", ![t].st = st]
    /\ UNCHANGED <<wrappers, nextId, ops, last, mode>>

\* try!(check_status(..)); Ok(Self(self.0)): the new wrapper is the thread's.
try_clone_return(t) ==
    LET res == try_clone_ret(threads[t].src, threads[t].st) IN
    /\ mode = "run"
    /\ threads[t].pc = "retained"
    /\ wrappers' = IF res.tag = "Ok" THEN wrappers \cup {res.val} ELSE wrappers
    /\ nextId' = IF res.tag = "Ok" THEN nextId + 1 ELSE nextId
    /\ ops' = IF res.tag = "Ok" THEN [ops EXCEPT ![threads[t].src.h].dup = @ + 1]
              ELSE ops
    /\ threads' = [threads EXCEPT
                      ![t] = Idle(IF res.tag = "Ok" THEN @.owned \cup {res.val}
                                  ELSE @.owned)]
    /\ mode' = IF res.tag = "Panic" THEN AfterPanic ELSE mode
    /\ UNCHANGED <<rc, okind, ncalls, last>>

\* drop(&mut self) of a wrapper the thread owns: one native release.
thread_drop(t, w) ==
    /\ mode = "run"
    /\ threads[t].pc = "idle"
    /\ w \in threads[t].owned
    /\ \E st \in ThreadAnswers(w.h) :
        /\ drop_eff(w, st)
        /\ mode' = IF drop_ret(st).tag = "Panic" THEN AfterPanic ELSE mode
    /\ threads' = [threads EXCEPT ![t].owned = @ \ {w}]
    /\ UNCHANGED <<nextId, last>>

Thread_try_clone_read ==
    \E t \in Threads : \E w \in threads[t].owned : try_clone_read(t, w)
Thread_try_clone_retain == \E t \in Threads : try_clone_retain(t)
Thread_try_clone_return == \E t \in Threads : try_clone_return(t)
Thread_drop == \E t \in Threads : \E w \in threads[t].owned : thread_drop(t, w)

NextThreads ==
    \/ Thread_try_clone_read
    \/ Thread_try_clone_retain
    \/ Thread_try_clone_return
    \/ Thread_drop

SpecThreads == InitThreads /\ [][NextThreads]_vars

\* ================================================================ claims
Allocated == {h \in Handles : okind[h] # "none"}
AllNativeOk(h) == ~ncalls[h].retainFail /\ ~ncalls[h].releaseFail

\* C1: on an object whose native calls all succeeded, the retain calls issued
\* equal the duplications, the release calls issued equal the wrappers
\* dropped, and once every wrapper is dropped the refcount is back at its
\* value before creation (zero).
C1_RetainReleaseBalance ==
    \A h \in Allocated :
        AllNativeOk(h) =>
            /\ ncalls[h].retain = ops[h].dup
            /\ ncalls[h].release = ops[h].drop
            /\ (Live(h) = {} => rc[h] = 0)

\* A created wrapper was duplicated and the original and the duplicate were
\* both dropped, every native call succeeding.
C1_Witness ==
    \E h \in Allocated :
        /\ AllNativeOk(h)
        /\ ops[h].dup >= 1
        /\ ops[h].drop = ops[h].dup + 1
        /\ Live(h) = {}

\* C2: while a wrapper of an object is live, the object's native refcount is
\* at least 1.
C2_LiveImpliesRefcount ==
    \A h \in Allocated : Live(h) # {} => rc[h] >= 1

\* The original was duplicated once and then dropped; the wrapper that is
\* left is the duplicate (it has the later identity).
C2_Witness ==
    /\ last.op = "drop"
    /\ last.res.tag = "Return"
    /\ ops[last.w.h].dup = 1
    /\ ops[last.w.h].drop = 1
    /\ \E d \in Live(last.w.h) : d.id > last.w.id /\ rc[d.h] >= 1

C4_TryCloneStep ==
    last'.op = "try_clone" =>
        LET w == last'.w
            c == last'.calls[1]
        IN
        /\ Len(last'.calls) = 1
        /\ c.fn = RetainFn(w.kind)
        /\ c.h = w.h
        /\ ncalls'[w.h].retain = ncalls[w.h].retain + 1
        /\ ncalls'[w.h].release = ncalls[w.h].release
        /\ (c.status = CL_SUCCESS =>
              /\ last'.res.tag = "Ok"
              /\ last'.res.val.h = w.h
              /\ last'.res.val.kind = w.kind
              /\ last'.res.val \notin wrappers
              /\ wrappers' = wrappers \cup {last'.res.val}
              /\ rc'[w.h] = rc[w.h] + 1)
        /\ (c.status # CL_SUCCESS /\ c.status \in CLStatusValues =>
              /\ last'.res = Err(c.status)
              /\ wrappers' = wrappers
              /\ w \in wrappers'
              /\ rc' = rc
              /\ mode' = mode)
\* C4, over every step: each step that is a try_clone satisfies the above.
C4_TryClone == [][C4_TryCloneStep]_vars

\* A try_clone failed with a recognized status and its operand is still live.
C4_Witness ==
    /\ last.op = "try_clone"
    /\ last.res.tag = "Err"
    /\ last.res.status = last.calls[1].status
    /\ last.w \in wrappers

\* C5: a non-success status from the retain of clone() or from the release of
\* a drop always ends in a panic.
C5_FailedRefcountCallPanics ==
    (last.op \in {"clone", "drop"} /\ last.calls[1].status # CL_SUCCESS) =>
        /\ last.res.tag = "Panic"
        /\ mode \in {"unwind", "abort"}

\* A drop met a recognized error from the native release and panicked.
C5_Witness ==
    /\ last.op = "drop"
    /\ last.calls[1].status \in CLStatusValues \ {CL_SUCCESS}
    /\ last.res.tag = "Panic"

\* C8: the facade's create_context returns Err with the low-level status when
\* the low-level create_context returns Err, and Ok wrapping the same context
\* when it returns Ok.
C8_FacadeCreateContext ==
    last.op = "hl_create_context" =>
        /\ (last.inner.tag = "Err" => last.res = Err(last.inner.status))
        /\ (last.inner.tag = "Ok" =>
              /\ last.res.tag = "Ok"
              /\ last.res.val = hl_Context(last.inner.val)
              /\ last.inner.val \in wrappers)

\* The facade returned a recoverable error from the native creation call.
C8_Witness ==
    /\ last.op = "hl_create_context"
    /\ last.inner.tag = "Err"
    /\ last.res.tag = "Err"
    /\ last.calls[1].status = last.res.status

\* C6: check_status has exactly three outcomes: Ok(()) for the success code,
\* Err carrying the status for every other integer of the status enumeration,
\* and a panic for an integer that is no status.
C6_CheckStatusThreeWay ==
    last.op = "check_status" =>
        /\ (last.arg = CL_SUCCESS => last.res = Ok(Unit))
        /\ (last.arg \in CLStatusValues \ {CL_SUCCESS} => last.res = Err(last.arg))
        /\ (last.arg \notin CLStatusValues =>
              last.res.tag = "Panic" /\ mode = "unwind")

\* check_status was handed an integer that is no status and panicked.
C6_Witness ==
    /\ last.op = "check_status"
    /\ last.arg \notin CLStatusValues
    /\ last.res.tag = "Panic"

LLOps ==
    (QueryOps \ {"check_status", "string_from_cstring_buf"})
        \cup {"create_context", "create_mem_device_buffer", "create_command_queue",
              "try_clone"}
RecognizedError(st) == st \in CLStatusValues \ {CL_SUCCESS}

\* C7: in every low-level operation a native call that answers a recognized
\* error makes the operation return Err with exactly that status, and it is
\* the last native call the operation issues (after a failed sizing call no
\* fill call follows).
C7_NativeErrorIsReturned ==
    last.op \in LLOps =>
        \A k \in 1 .. Len(last.calls) :
            RecognizedError(last.calls[k].status) =>
                /\ last.res = Err(last.calls[k].status)
                /\ k = Len(last.calls)

\* The sizing call of get_platform_info failed: Err, and no second call.
C7_Witness ==
    /\ last.op = "get_platform_info"
    /\ Len(last.calls) = 1
    /\ RecognizedError(last.calls[1].status)
    /\ last.res = Err(last.calls[1].status)

WithoutLast(buf) == SubSeq(buf, 1, Len(buf) - 1)
OpenCL12 == <<79, 112, 101, 110, 67, 76, 32, 49, 46, 50>>

\* C9: a buffer s followed by one 0 byte, s valid UTF-8, decodes to exactly s.
C9_DecodeStripsTerminator ==
    last.op = "string_from_cstring_buf" =>
        /\ (/\ Len(last.arg) >= 1
            /\ last.arg[Len(last.arg)] = 0
            /\ Utf8From(WithoutLast(last.arg), 1))
           => last.res = Returned(String(WithoutLast(last.arg)))
        /\ last.arg = ExampleTerminated => last.res = Returned(String(OpenCL12))
        /\ last.arg = <<195, 169, 0>> => last.res = Returned(String(<<195, 169>>))
        /\ last.arg = <<65, 0, 0>> => last.res = Returned(String(<<65, 0>>))

\* b"OpenCL 1.2\0" was decoded to "OpenCL 1.2".
C9_Witness ==
    /\ last.op = "string_from_cstring_buf"
    /\ last.arg = ExampleTerminated
    /\ last.res.tag = "Return"
    /\ last.res.val = String(OpenCL12)

Malformed(buf) ==
    \/ Len(buf) = 0
    \/ buf[Len(buf)] # 0
    \/ ~Utf8From(WithoutLast(buf), 1)
BothCallsSucceeded ==
    /\ Len(last.calls) = 2
    /\ last.calls[1].status = CL_SUCCESS
    /\ last.calls[2].status = CL_SUCCESS

\* C10: a buffer that is empty, or not terminated by 0, or not UTF-8 before
\* the terminator, makes the decoder panic, alone and inside get_platform_info
\* and the string device query after two successful native calls.
C10_MalformedBufferPanics ==
    /\ (last.op = "string_from_cstring_buf" /\ Malformed(last.arg)) =>
          last.res.tag = "Panic"
    /\ (/\ last.op \in {"get_platform_info", "get_device_info_String"}
        /\ BothCallsSucceeded
        /\ Malformed(last.arg))
       => (last.res.tag = "Panic" /\ mode = "unwind")

\* The string device query got b"OpenCL" (no terminator) from two successful
\* native calls and panicked.
C10_Witness ==
    /\ last.op = "get_device_info_String"
    /\ BothCallsSucceeded
    /\ last.arg = ExampleUnterminated
    /\ last.res.tag = "Panic"

\* C11: with zero native platforms (the sizing call answers success and
\* reports 0) get_platform_ids returns Ok with an empty sequence, through the
\* second native call made with a zero-length array.
C11_EmptyPlatformListIsOk ==
    (/\ last.op = "get_platform_ids"
     /\ last.arg = 0
     /\ last.calls[1].status = CL_SUCCESS)
    => last.res = Ok(<<>>)

\* C12: for a platform with no device of the asked type (the sizing call
\* answers success and reports 0) get_device_ids returns Ok with an empty
\* sequence.
C12_NoMatchingDeviceIsOk ==
    (/\ last.op = "get_device_ids"
     /\ last.arg = 0
     /\ last.calls[1].status = CL_SUCCESS)
    => last.res = Ok(<<>>)

\* C13: create_context with an empty device list is rejected, directly and
\* through the facade: the call returns Err, it does not panic, and no native
\* context and no Context wrapper comes of it.
C13_EmptyDeviceListRejected ==
    (/\ last.op \in {"create_context", "hl_create_context"}
     /\ last.devices = <<>>)
    => /\ last.res.tag = "Err"
       /\ mode = "run"
       /\ last.calls[1].h = 0
       /\ \A w \in wrappers : w.h \in Allocated

\* create_context(platform, &[]) returned Err(CL_INVALID_VALUE).
C13_Witness ==
    /\ last.op = "create_context"
    /\ last.devices = <<>>
    /\ last.res = Err(-30)

\* bitflags!: self.contains(other), every bit of other is set in self.
contains(self, other) == other \subseteq self
\* The declared device type flags.
DeviceTypeFlags == {DEFAULT, GPU, CPU, ACCELERATOR, ALL}

\* C14: after a successful native call the device-type query decodes the raw
\* bit field: a raw value all of whose bits are bits of declared flags yields
\* Ok with a flag set of exactly those bits (it contains a declared flag
\* exactly when the raw value has all its bits), and a raw value with a bit
\* outside the declared flags panics, with no truncation and no Err.
C14_DeviceTypeDecoded ==
    (/\ last.op = "get_device_info_DeviceType"
     /\ last.calls[1].status = CL_SUCCESS)
    => IF last.arg \subseteq UNION DeviceTypeFlags
       THEN /\ last.res = Ok(last.arg)
            /\ \A f \in DeviceTypeFlags :
                   contains(last.res.val, f) <=> f \subseteq last.arg
       ELSE /\ last.res = Panic
            /\ mode = "unwind"

\* A GPU-only raw value decoded to a flag set that contains GPU and not CPU.
C14_Witness ==
    /\ last.op = "get_device_info_DeviceType"
    /\ last.calls[1].status = CL_SUCCESS
    /\ last.arg = GPU
    /\ last.res.tag = "Ok"
    /\ contains(last.res.val, GPU)
    /\ ~contains(last.res.val, CPU)

\* The operations that ask the runtime for a length and then for the data.
TwoCallOps ==
    {"get_platform_ids", "get_device_ids", "get_platform_info",
     "get_device_info_String"}

\* C16: in every two-call operation the second native call is issued exactly
\* when the first succeeded, the array passed to it has the length the first
\* call reported, and the length argument passed with it is the array's length.
C16_SecondCallLengths ==
    last.op \in TwoCallOps =>
        /\ Len(last.calls) = (IF last.calls[1].status = CL_SUCCESS THEN 2 ELSE 1)
        /\ last.calls[1].n = 0
        /\ last.calls[1].buf = 0
        /\ Len(last.calls) = 2 =>
              /\ last.calls[2].buf = last.calls[1].out
              /\ last.calls[2].n = last.calls[2].buf

\* The string device query was told 2 bytes by its first call and passed a
\* 2-byte buffer with size 2 to its second.
C16_Witness ==
    /\ last.op = "get_device_info_String"
    /\ Len(last.calls) = 2
    /\ last.calls[1].out = 2
    /\ last.calls[2].buf = 2
    /\ last.calls[2].n = 2

\* The operations that create a native object and wrap it.
CreateOps ==
    {"create_context", "create_mem_device_buffer", "create_command_queue",
     "hl_create_context"}

C18_Step ==
    /\ (/\ last'.op \in CreateOps
        /\ last'.calls[1].status # CL_SUCCESS)
       => /\ last'.res.tag \in {"Err", "Panic"}
          /\ Len(last'.calls) = 1
          /\ last'.calls[1].h = 0
          /\ wrappers' = wrappers
          /\ nextId' = nextId
          /\ ncalls' = ncalls
          /\ rc' = rc
    /\ (/\ last'.op \in CreateOps
        /\ last'.calls[1].status = CL_SUCCESS)
       => /\ Len(last'.calls) = 1
          /\ ncalls' = ncalls
          /\ \E w \in wrappers' \ wrappers :
                /\ wrappers' = wrappers \cup {w}
                /\ w.h = last'.calls[1].h
                /\ rc[w.h] = 0
                /\ rc'[w.h] = 1
    /\ \A w \in wrappers' : w.h \in Handles /\ okind'[w.h] = w.kind
    /\ \A h \in Handles : okind'[h] = "none" => ncalls'[h] = NoCalls

\* C18: a creation whose native call answers a status other than success
\* constructs no wrapper and issues no retain and no release; a successful one
\* constructs one wrapper of the new handle and issues neither; every wrapper
\* holds a handle whose creation succeeded, and a handle never created is never
\* retained or released.
C18_FailedCreationLeavesNothing == [][C18_Step]_vars

\* create_mem_device_buffer was answered CL_OUT_OF_RESOURCES: it returned Err
\* and the context is still the only wrapper.
C18_Witness ==
    /\ last.op = "create_mem_device_buffer"
    /\ last.calls[1].status = -5
    /\ last.res = Err(-5)
    /\ wrappers = {last.w}
    /\ \A h \in Handles : ncalls[h] = NoCalls

\* The enumerations, property queries and copies of platform and device ids.
IdOps ==
    {"get_platform_ids", "get_platform_info", "get_device_ids",
     "get_device_info_Bool", "get_device_info_ClUint", "get_device_info_String",
     "get_device_info_DeviceType", "copy_ll_id", "copy_hl_value",
     "hl_get_platforms", "hl_get_devices", "hl_Platform_info", "hl_Device_info",
     "hl_Device_device_type", "hl_Device_num_compute_units"}
\* The native entry points of enumeration and property query.
QueryFns ==
    {"clGetPlatformIDs", "clGetPlatformInfo", "clGetDeviceIDs", "clGetDeviceInfo"}

C15_Step ==
    /\ last'.op \in IdOps =>
          /\ \A i \in 1 .. Len(last'.calls) : last'.calls[i].fn \in QueryFns
          /\ last'.op \in {"copy_ll_id", "copy_hl_value"} =>
                (last'.calls = <<>> /\ last'.res = Returned(last'.arg))
          /\ rc' = rc
          /\ okind' = okind
          /\ ncalls' = ncalls
          /\ ops' = ops
          /\ wrappers' = wrappers
    /\ (ncalls' # ncalls \/ \E h \in Handles : rc'[h] # rc[h] /\ rc[h] > 0) =>
          /\ last'.op \in {"try_clone", "clone", "drop"}
          /\ last'.w.kind \in Kinds

\* C15: an enumeration, a property query or a copy of a PlatformId or DeviceId,
\* or of the facade's Platform or Device, issues no native retain and no
\* release and leaves every refcount and every wrapper as it was (a copy
\* issues no native call at all); a retain or release, or a change of an
\* existing object's refcount, happens only in the clone or drop of a Context,
\* CommandQueue or Mem wrapper.
C15_IdsAreNotRefcounted == [][C15_Step]_vars

\* Device ids were enumerated while a context with two wrappers was alive, and
\* its refcount is still 2.
C15_Witness ==
    /\ last.op = "get_device_ids"
    /\ last.res.tag = "Ok"
    /\ Len(last.res.val) = 1
    /\ \E h \in Handles :
          /\ okind[h] = "Context"
          /\ rc[h] = 2
          /\ Cardinality(Live(h)) = 2

\* C19: when the runtime invokes the context error callback, the callback does
\* not return to its native caller and does not unwind into it: the process
\* aborts, whether the error string is UTF-8 or not.
C19_CallbackAborts ==
    last.op = "dummy_context_handler" =>
        /\ last.res = Panic
        /\ mode = "abort"

\* The references held on h: one per live wrapper, and one per clone that has
\* retained and is about to hand its wrapper to its caller.
Retained(h) ==
    {t \in Threads :
        /\ threads[t].pc = "retained"
        /\ threads[t].src.h = h
        /\ threads[t].st = CL_SUCCESS}
Holders(h) == Cardinality(Live(h)) + Cardinality(Retained(h))

====
